---- MODULE Spec2Model ----
(***************************************************************************)
(* Model of the UI test-automation suite LeoChen_chatbox.                  *)
(*                                                                         *)
(*   Part I  (Spec):  the Test Lifecycle Controller of src/conftest.py:    *)
(*            the scope flags, the init_driver / init_session fixtures,    *)
(*            and the pytest_runtest_call / pytest_runtest_makereport      *)
(*            hooks, driven through the runner's setup / call / teardown   *)
(*            protocol for a sequence of collected test items.             *)
(*   Part II (SpecPage, SpecScroll):  the wait / action facade of          *)
(*            src/object/base_page.py: waits, clicks, text entry, frame    *)
(*            switches and the scroll loop.                                *)
(*   Part III (SpecBrowser):  the operations of the facade on the browser: *)
(*            navigation guard, tabs, drag strategies, attribute wait.     *)
(***************************************************************************)
EXTENDS Integers, Sequences, FiniteSets, TLC

(***************************************************************************)
(* Bounds                                                                  *)
(***************************************************************************)
\* number of collected test items of one run
MaxTests == 2

(***************************************************************************)
(* State.  Part I: src/conftest.py, the Test Lifecycle Controller.         *)
(*         Part II: src/object/base_page.py, the wait / action facade.     *)
(***************************************************************************)
VARIABLES
    flags,            \* config: option name -> BOOLEAN (the command line)
    scope,            \* scope of the dynamic fixtures, "unset" before configure
    pc,               \* position of the runner in the runtest protocol
    idx,              \* number (and name) of the current test item, 0 = none yet
    item,             \* the current test item
    nextitem,         \* the item following the current one (known at teardown)
    filled,           \* how many fixtures of item.uses have been requested
    funcargs,         \* item.funcargs: fixture name -> handle (0 = absent)
    rep,              \* the report handed to pytest_runtest_makereport
    item_rep,         \* item.rep_setup / rep_call / rep_teardown
    previous_failed,  \* parent._previous_failed: parent -> item (0 = None)
    cache,            \* cached fixture values of the scopes that are active
    handles,          \* every Browser / Session Handle constructed so far
    bodyRan,          \* the current item's test function was executed
    skipReason,       \* item named by the skip reason of the current item, 0 = none
    attached,         \* screenshots attached to the report: <<item, handle>>
    firstFailed       \* history: parent -> first incremental item that failed

lifeVars == <<flags, scope, pc, idx, item, nextitem, filled, funcargs, rep,
              item_rep, previous_failed, cache, handles, bodyRan, skipReason,
              attached, firstFailed>>

VARIABLES
    doc,         \* the locator's target in the live document
    call,        \* the facade call in progress
    cpc,         \* position inside the call
    stage,       \* which part of the calling method the wait belongs to
    now,         \* ticks since the call was invoked
    end_time,    \* deadline of the WebDriverWait in progress
    lastEval,    \* ticks the last evaluation of the wait condition took
    everReady,   \* history: the target was present and visible during the call
    observed,    \* history: a poll observed the target present and visible
    wres,        \* how WebDriverWait.until ended
    ret,         \* what wait_and_get_element gave its caller
    caught,      \* the exception an except clause of the facade caught
    result,      \* how the call ended
    action,      \* self.action: the gestures queued on the page's ActionChains
    clickTrace,  \* history of the click in progress: direct and fallback outcome
    prior        \* history: the content of the field when the call was invoked

VARIABLES
    frame,       \* nesting depth of the driver's browsing context, 0 = default
    windows,     \* tabs open in the browser; the session has ended when none is
    guarded,     \* the beforeunload overrides are installed in the document
    loop,        \* locals of the scroll loop: scroll_height, step, height
    trace        \* history of the call in progress (see NoTrace)

ctxVars == <<frame, windows, guarded, loop, trace>>

pageVars == <<doc, call, cpc, stage, now, end_time, lastEval, everReady,
              observed, wres, ret, caught, result, action, clickTrace,
              prior, ctxVars>>

\* parser.addoption(...) of pytest_addoption: four store_true options
OptionNames == {"--session", "--package", "--module", "--class"}

getoption(config, name) == config[name]

determine_scope_swapped(fixture_name, config) ==
    IF getoption(config, "--session") THEN "session"
    ELSE IF getoption(config, "--module") THEN "module"
    ELSE IF getoption(config, "--package") THEN "package"
    ELSE IF getoption(config, "--class") THEN "class"
    ELSE "function"

determine_scope_shared(fixture_name, config) ==
    IF getoption(config, "--session") THEN "session"
    ELSE IF getoption(config, "--package") THEN "package"
    ELSE IF getoption(config, "--module") THEN "module"
    ELSE "class"

determine_scope(fixture_name, config) ==
    IF getoption(config, "--session") THEN "session"
    ELSE IF getoption(config, "--package") THEN "package"
    ELSE IF getoption(config, "--module") THEN "module"
    ELSE IF getoption(config, "--class") THEN "class"
    ELSE "function"

FixtureNames == {"init_driver", "init_session"}

\* the test class of the suite; a test function defined at module level has the
\* module as its parent and no class (request.cls is None)
Classes == {"TestChatBoxPage"}
Parents == Classes \cup {"module"}

\* the fixtures a test function requests, in the order of its signature
UsesChoices == { <<>>, <<"init_driver">>, <<"init_session">>,
                 <<"init_driver", "init_session">>,
                 <<"init_session", "init_driver">> }

Items == [parent : Parents, incremental : BOOLEAN, uses : UsesChoices]

NoItem == [parent |-> "none", incremental |-> FALSE, uses |-> <<>>]

NoReport == [when |-> "none", outcome |-> "none", excinfo |-> FALSE]
NoReports == [w \in {"setup", "call", "teardown"} |-> "none"]
NoCache == [key |-> <<"none">>, val |-> 0, exc |-> FALSE]

\* the node a fixture of scope sc is cached on when requested by item it (number i);
\* a class-scoped fixture requested outside a class falls back to the item
ScopeNode(sc, it, i) ==
    IF sc = "function" THEN <<"item", i>>
    ELSE IF sc = "class"
         THEN (IF it.parent \in Classes THEN <<"class", it.parent>> ELSE <<"item", i>>)
         ELSE <<sc>>

NoGranularityFlag == \A o \in OptionNames : ~flags[o]

LifeInit ==
    /\ flags \in [OptionNames -> BOOLEAN]
    /\ scope = "unset"
    /\ pc = "configure"
    /\ idx = 0
    /\ item = NoItem
    /\ nextitem = NoItem
    /\ filled = 0
    /\ funcargs = [f \in FixtureNames |-> 0]
    /\ rep = NoReport
    /\ item_rep = NoReports
    /\ previous_failed = [p \in Parents |-> 0]
    /\ cache = [f \in FixtureNames |-> NoCache]
    /\ handles = <<>>
    /\ bodyRan = FALSE
    /\ skipReason = 0
    /\ attached = {}
    /\ firstFailed = [p \in Parents |-> 0]

\* @pytest.fixture(scope=determine_scope): the scope is computed from the
\* configuration when the fixtures are registered; then the first item starts
Configure ==
    /\ pc = "configure"
    /\ scope' = determine_scope("init_driver", flags)
    /\ \E it \in Items :
          /\ item' = it
          /\ idx' = 1
    /\ pc' = "setup"
    /\ UNCHANGED <<flags, nextitem, filled, funcargs, rep, item_rep,
                   previous_failed, cache, handles, bodyRan, skipReason,
                   attached, firstFailed>>
    /\ UNCHANGED pageVars

NoHandle == 0

\* the fixture fx is the next one the setup phase of the current item requests
Requested(fx) ==
    /\ pc = "setup"
    /\ filled < Len(item.uses)
    /\ item.uses[filled + 1] = fx

\* an exception in a fixture ends the setup phase with a failed report
SetupFailed ==
    /\ rep' = [when |-> "setup", outcome |-> "failed", excinfo |-> TRUE]
    /\ pc' = "report"
    /\ UNCHANGED <<filled, funcargs>>

\* request.cls of the current item: None for a test function outside a class
RequestClsIsNone(it) == it.parent \notin Classes

\* `if request.scope in ("function", "class"): request.cls.<attr> = handle`
\* raises AttributeError when request.cls is None
SetClsAttrRaises(sc, it) == sc \in {"function", "class"} /\ RequestClsIsNone(it)

\* Setup half (up to the yield) of a generator fixture of dynamic scope. A value
\* cached on the active scope node is reused (a cached exception is raised
\* again); otherwise the fixture function runs: the handle is constructed
\* (constructs: the outcomes the constructor can have), bound to the class
\* for the two narrow scopes, and yielded.  The teardown half is registered
\* only once the generator has reached its yield.
FixtureSetup(fx, constructs) ==
    /\ Requested(fx)
    /\ LET node == ScopeNode(scope, item, idx)
           c    == cache[fx]
           h    == Len(handles) + 1
       IN  IF c.key = node
           THEN IF c.exc
                THEN SetupFailed /\ UNCHANGED <<cache, handles>>
                ELSE /\ funcargs' = [funcargs EXCEPT ![fx] = c.val]
                     /\ filled' = filled + 1
                     /\ handles' = [handles EXCEPT ![c.val].recv = @ \cup {idx}]
                     /\ UNCHANGED <<cache, rep, pc>>
           ELSE \E constructed \in constructs :
                  IF ~constructed
                  THEN /\ cache' = [cache EXCEPT ![fx] =
                                       [key |-> node, val |-> NoHandle, exc |-> TRUE]]
                       /\ SetupFailed
                       /\ UNCHANGED handles
                  ELSE IF SetClsAttrRaises(scope, item)
                  THEN /\ handles' = Append(handles,
                                       [fixture |-> fx, quits |-> 0, recv |-> {}])
                       /\ cache' = [cache EXCEPT ![fx] =
                                       [key |-> node, val |-> NoHandle, exc |-> TRUE]]
                       /\ SetupFailed
                  ELSE /\ handles' = Append(handles,
                                       [fixture |-> fx, quits |-> 0, recv |-> {idx}])
                       /\ cache' = [cache EXCEPT ![fx] =
                                       [key |-> node, val |-> h, exc |-> FALSE]]
                       /\ funcargs' = [funcargs EXCEPT ![fx] = h]
                       /\ filled' = filled + 1
                       /\ UNCHANGED <<rep, pc>>
    /\ UNCHANGED <<flags, scope, idx, item, nextitem, item_rep, previous_failed,
                   bodyRan, skipReason, attached, firstFailed>>

\* init_driver up to its yield; webdriver.Chrome(...) may fail to start a browser
init_driver ==
    /\ FixtureSetup("init_driver", BOOLEAN)
    /\ UNCHANGED pageVars

\* init_session up to its yield; requests.Session() always constructs
init_session ==
    /\ FixtureSetup("init_session", {TRUE})
    /\ UNCHANGED pageVars

\* every requested fixture has a value: the setup phase passed
SetupPassed ==
    /\ pc = "setup"
    /\ filled = Len(item.uses)
    /\ rep' = [when |-> "setup", outcome |-> "passed", excinfo |-> FALSE]
    /\ pc' = "report"
    /\ UNCHANGED <<flags, scope, idx, item, nextitem, filled, funcargs, item_rep,
                   previous_failed, cache, handles, bodyRan, skipReason,
                   attached, firstFailed>>
    /\ UNCHANGED pageVars

\* outcomes of executing a test function: it returns, raises, or calls pytest.skip
BodyOutcomes == {"passed", "failed", "skipped"}

SkipsItemNever(previous, it) == FALSE

\* the condition under which pytest_runtest_call skips the item
SkipsItem(previous, it) == previous # 0 /\ it.incremental

\* pytest_runtest_call: the conftest implementation runs before the runner's own,
\* which executes the test function; pytest.skip raises, so the body is not run
pytest_runtest_call ==
    /\ pc = "call"
    /\ LET previous == previous_failed[item.parent]
       IN  IF SkipsItem(previous, item)
           THEN /\ skipReason' = previous
                /\ rep' = [when |-> "call", outcome |-> "skipped", excinfo |-> TRUE]
                /\ UNCHANGED bodyRan
           ELSE \E out \in BodyOutcomes :
                  /\ bodyRan' = TRUE
                  /\ rep' = [when |-> "call", outcome |-> out,
                             excinfo |-> (out # "passed")]
                  /\ UNCHANGED skipReason
    /\ pc' = "report"
    /\ UNCHANGED <<flags, scope, idx, item, nextitem, filled, funcargs, item_rep,
                   previous_failed, cache, handles, attached, firstFailed>>
    /\ UNCHANGED pageVars

\* `rep.when == "call" and rep.outcome == "failed"`
CallFailed(r) == r.when = "call" /\ r.outcome = "failed"

ScreenshotDueAnyOutcome(r, args) ==
    r.when = "call" /\ args["init_driver"] # NoHandle

\* a screenshot is taken from item.funcargs['init_driver'] and attached
ScreenshotDue(r, args) == CallFailed(r) /\ args["init_driver"] # NoHandle

MarksParentAnyTest(r, it) == CallFailed(r) /\ r.excinfo

\* parent._previous_failed = item
MarksParent(r, it) == CallFailed(r) /\ it.incremental /\ r.excinfo

\* pytest_runtest_makereport (hookwrapper): called with the report of each phase
pytest_runtest_makereport ==
    /\ pc = "report"
    /\ item_rep' = [item_rep EXCEPT ![rep.when] = rep.outcome]
    /\ attached' = IF ScreenshotDue(rep, funcargs)
                   THEN attached \cup {<<idx, funcargs["init_driver"]>>}
                   ELSE attached
    /\ previous_failed' = IF MarksParent(rep, item)
                          THEN [previous_failed EXCEPT ![item.parent] = idx]
                          ELSE previous_failed
    /\ firstFailed' = IF /\ rep.outcome = "failed"
                         /\ item.incremental
                         /\ firstFailed[item.parent] = 0
                      THEN [firstFailed EXCEPT ![item.parent] = idx]
                      ELSE firstFailed
    /\ pc' = IF rep.when = "setup"
             THEN (IF rep.outcome = "passed" THEN "call" ELSE "teardown")
             ELSE IF rep.when = "call" THEN "teardown" ELSE "next"
    /\ UNCHANGED <<flags, scope, idx, item, nextitem, filled, funcargs, rep,
                   cache, handles, bodyRan, skipReason>>
    /\ UNCHANGED pageVars

\* the scope node the cached value of fx lives on is left when nxt follows
ScopeExits(fx, nxt) ==
    /\ cache[fx].key # NoCache.key
    /\ \/ nxt = NoItem
       \/ ScopeNode(scope, nxt, idx + 1) # cache[fx].key

\* the part of a fixture after its yield: web_driver.quit() / session.close()
Release(h) == [h EXCEPT !.quits = @ + 1]

\* pytest_runtest_teardown(item, nextitem): the finalizers of every scope node
\* that nextitem is not under are run; they run whatever the reports were
pytest_runtest_teardown ==
    /\ pc = "teardown"
    /\ \E nxt \in (IF idx < MaxTests THEN Items \cup {NoItem} ELSE {NoItem}) :
          /\ nextitem' = nxt
          /\ cache' = [fx \in FixtureNames |->
                          IF ScopeExits(fx, nxt) THEN NoCache ELSE cache[fx]]
          /\ handles' = [h \in DOMAIN handles |->
                          IF \E fx \in FixtureNames :
                                /\ ScopeExits(fx, nxt)
                                /\ ~cache[fx].exc
                                /\ cache[fx].val = h
                          THEN Release(handles[h])
                          ELSE handles[h]]
    /\ rep' = [when |-> "teardown", outcome |-> "passed", excinfo |-> FALSE]
    /\ pc' = "report"
    /\ UNCHANGED <<flags, scope, idx, item, filled, funcargs, item_rep,
                   previous_failed, bodyRan, skipReason, attached, firstFailed>>
    /\ UNCHANGED pageVars

\* the runner moves on to nextitem, or the session ends
NextItem ==
    /\ pc = "next"
    /\ IF nextitem = NoItem
       THEN /\ pc' = "done"
            /\ UNCHANGED <<idx, item, nextitem, filled, funcargs, rep, item_rep,
                           bodyRan, skipReason>>
       ELSE /\ pc' = "setup"
            /\ idx' = idx + 1
            /\ item' = nextitem
            /\ nextitem' = NoItem
            /\ filled' = 0
            /\ funcargs' = [f \in FixtureNames |-> NoHandle]
            /\ rep' = NoReport
            /\ item_rep' = NoReports
            /\ bodyRan' = FALSE
            /\ skipReason' = 0
    /\ UNCHANGED <<flags, scope, previous_failed, cache, handles, attached,
                   firstFailed>>
    /\ UNCHANGED pageVars

LifeNext ==
    \/ Configure
    \/ init_driver
    \/ init_session
    \/ SetupPassed
    \/ pytest_runtest_call
    \/ pytest_runtest_makereport
    \/ pytest_runtest_teardown
    \/ NextItem

(***************************************************************************)
(* Part II: src/object/base_page.py, the wait / action facade.             *)
(* One facade call at a time runs against a live document in which the     *)
(* target of the locator appears, hides and disappears on its own.  Time   *)
(* is counted in ticks of a quarter of a second.                           *)
(***************************************************************************)
\* largest timeout passed to a call, in ticks
MaxTimeout == 2
\* longest time one evaluation of the wait condition (driver round trips) takes
MaxEval == 1
\* longest text in a field or typed into it
MaxLen == 2
\* most gestures left queued on self.action
MaxQueue == 2

\* WebDriverWait(self.driver, timeout): the default poll frequency, 0.5 s
Poll == 2

Chars == {"o"}
Texts == UNION {[1..n -> Chars] : n \in 0..MaxLen}

Timeouts == 1..MaxTimeout

Docs == {d \in [present : BOOLEAN, visible : BOOLEAN, value : Texts] :
            d.visible => d.present}

\* the document right after a page load: the target is not rendered yet
FreshDoc == [present |-> FALSE, visible |-> FALSE, value |-> <<>>]

\* visibility_of_element_located and presence_of_element_located both hold
Ready(d) == d.present /\ d.visible

NoExc == [kind |-> "none", msg |-> <<>>, stacktrace |-> FALSE, tb |-> "none"]

\* raise TimeoutException(message, screen, stacktrace) of WebDriverWait.until
TimeoutExc ==
    [kind |-> "TimeoutException", msg |-> <<>>, stacktrace |-> FALSE,
     tb |-> "until"]

\* raised by driver.find_element when nothing matches the locator
NoSuchElementExc ==
    [kind |-> "NoSuchElementException", msg |-> <<"no such element">>,
     stacktrace |-> TRUE, tb |-> "find_element"]

\* the driver process cannot be reached: an error that is no WebDriverException
DriverFault ==
    [kind |-> "MaxRetryError", msg |-> <<"connection refused">>,
     stacktrace |-> FALSE, tb |-> "execute"]

\* errors of a click, a clear or a send_keys reported by the driver
DriverExc(kind, where) ==
    [kind |-> kind, msg |-> <<"element">>, stacktrace |-> TRUE, tb |-> where]

\* str(exception) of a WebDriverException: "Message: " followed by its msg
Str(e) == <<"Message:">> \o e.msg

\* get_exception: sys.exc_info() of the exception being handled,
\* (type, value, traceback)
get_exception(e) == <<e.kind, e, e.tb>>

\* meta_raise: raise exc_info[0](exc_info[1]).with_traceback(exc_info[2]).
\* A new exception of the caught type is constructed with the caught exception
\* as its only argument (its msg); screen and stacktrace take their defaults.
meta_raise(exc_info) ==
    [kind |-> exc_info[1], msg |-> Str(exc_info[2]), stacktrace |-> FALSE,
     tb |-> exc_info[3]]

\* except (TimeoutException, NoSuchElementException, ElementNotVisibleException)
CaughtByWait ==
    {"TimeoutException", "NoSuchElementException", "ElementNotVisibleException"}

CaughtByExistNoTimeout ==
    {"NoSuchElementException", "ElementNotVisibleException"}

\* the except clause of wait_and_check_if_element_exist_or_visible
CaughtByExist ==
    {"TimeoutException", "NoSuchElementException", "ElementNotVisibleException"}

NoCall == [op |-> "none", element |-> "none", timeout |-> 0, text |-> <<>>]
NoOutcome == [status |-> "none", value |-> "None", exc |-> NoExc]
NoClick == [direct |-> "none", fallback |-> "none"]

Returned(v) == [status |-> "returned", value |-> v, exc |-> NoExc]
Raised(e) == [status |-> "raised", value |-> "None", exc |-> e]

\* no scroll loop has run
NoLoop == [scroll_height |-> 0, step |-> 0, height |-> 0]

\* what a call has done so far: the frame depth and the guard at its
\* invocation, the gestures its perform() sent, the drag strategies tried, the
\* scroll offsets issued, the reads of the attribute and whether one of them
\* gave the expected content
NoTrace == [from |-> 0, guardedBefore |-> FALSE, performed |-> <<>>,
            tried |-> <<>>, issued |-> <<>>, reads |-> 0, matched |-> FALSE]

PageInit ==
    /\ doc \in Docs
    /\ call = NoCall
    /\ cpc = "idle"
    /\ stage = "none"
    /\ now = 0
    /\ end_time = 0
    /\ lastEval = 0
    /\ everReady = FALSE
    /\ observed = FALSE
    /\ wres = NoOutcome
    /\ ret = NoOutcome
    /\ caught = NoExc
    /\ result = NoOutcome
    /\ action = <<>>
    /\ clickTrace = NoClick
    /\ prior = <<>>
    /\ frame = 0
    /\ windows = 1
    /\ guarded = FALSE
    /\ loop = NoLoop
    /\ trace = NoTrace

\* the page itself shows, hides, inserts or removes the target at any moment
DocChange ==
    /\ \E d \in Docs :
          /\ d # doc
          /\ d.value = doc.value
          /\ doc' = d
    /\ everReady' = (everReady \/ (cpc \notin {"idle", "done"} /\ Ready(doc')))
    /\ UNCHANGED <<call, cpc, stage, now, end_time, lastEval, observed, wres,
                   ret, caught, result, action, clickTrace, prior>>
    /\ UNCHANGED ctxVars
    /\ UNCHANGED lifeVars

EndTimeNow(t0, timeout) == t0

\* end_time = time.monotonic() + self._timeout
EndTime(t0, timeout) == t0 + timeout

\* a facade call c is invoked; st is the part of it that waits first
Invoke(c, st) ==
    /\ cpc = "idle"
    /\ call' = c
    /\ stage' = st
    /\ now' = 0
    /\ lastEval' = 0
    /\ everReady' = Ready(doc)
    /\ observed' = FALSE
    /\ wres' = NoOutcome
    /\ ret' = NoOutcome
    /\ clickTrace' = NoClick
    /\ prior' = doc.value

\* the call has not ended and has caught nothing yet
Pending ==
    /\ result' = NoOutcome
    /\ caught' = NoExc

\* WebDriverWait(self.driver, timeout).until(...) is entered
BeginWait(t0, timeout) ==
    /\ cpc' = "poll"
    /\ end_time' = EndTime(t0, timeout)

\* wait_and_get_element(element, timeout) / wait_and_get_elements(element,
\* timeout) called by a test or a page object
CallWaitAndGet ==
    /\ \E op \in {"wait_and_get_element", "wait_and_get_elements"},
          t \in Timeouts :
          Invoke([op |-> op, element |-> "tuple", timeout |-> t, text |-> <<>>],
                 "top")
          /\ BeginWait(0, t)
    /\ Pending
    /\ UNCHANGED <<doc, action>>
    /\ UNCHANGED ctxVars
    /\ UNCHANGED lifeVars

\* wait_and_check_if_element_exist_or_visible(element, timeout)
CallExist ==
    /\ \E t \in Timeouts :
          Invoke([op |-> "wait_and_check_if_element_exist_or_visible",
                  element |-> "tuple", timeout |-> t, text |-> <<>>], "top")
          /\ BeginWait(0, t)
    /\ Pending
    /\ UNCHANGED <<doc, action>>
    /\ UNCHANGED ctxVars
    /\ UNCHANGED lifeVars

\* one pass of the loop of WebDriverWait.until: the condition EC.all_of(
\* visibility..., presence...) is evaluated against the live document; it is
\* falsy when the target is absent or hidden, and an error of the driver that
\* is no WebDriverException leaves the loop
UntilPoll ==
    /\ cpc = "poll"
    /\ \E d \in 0..MaxEval, fault \in BOOLEAN :
          /\ now' = now + d
          /\ lastEval' = d
          /\ IF fault
             THEN /\ wres' = Raised(DriverFault)
                  /\ cpc' = "after_wait"
                  /\ UNCHANGED observed
             ELSE IF Ready(doc)
             THEN /\ wres' = Returned("truthy")
                  /\ observed' = TRUE
                  /\ cpc' = "after_wait"
             ELSE /\ cpc' = "sleep"
                  /\ UNCHANGED <<wres, observed>>
    /\ UNCHANGED <<doc, call, stage, end_time, everReady, ret, caught, result,
                   action, clickTrace, prior>>
    /\ UNCHANGED ctxVars
    /\ UNCHANGED lifeVars

\* `if time.monotonic() > end_time: break`
TimedOut(t, deadline) == t > deadline

\* time.sleep(self._poll), then the deadline is checked
UntilSleep ==
    /\ cpc = "sleep"
    /\ now' = now + Poll
    /\ IF TimedOut(now', end_time)
       THEN /\ wres' = Raised(TimeoutExc)
            /\ cpc' = "after_wait"
       ELSE /\ cpc' = "poll"
            /\ UNCHANGED wres
    /\ UNCHANGED <<doc, call, stage, end_time, lastEval, everReady, observed,
                   ret, caught, result, action, clickTrace, prior>>
    /\ UNCHANGED ctxVars
    /\ UNCHANGED lifeVars

\* the exception the try block of wait_and_get_element(s) ends with, if any:
\* the one until raised, or NoSuchElementException from the find_element(s)
\* after a successful wait when the target is gone again
WaitTryExc ==
    IF wres.status = "raised" THEN wres.exc
    ELSE IF call.op # "wait_and_get_elements" /\ ~doc.present THEN NoSuchElementExc
    ELSE NoExc

\* wait_and_get_element / wait_and_get_elements after the wait: the element(s)
\* are found and returned, or the caught exception goes through meta_raise;
\* an exception the except clause does not name propagates as it is
WaitOutcome ==
    IF WaitTryExc = NoExc
    THEN Returned(IF call.op = "wait_and_get_elements"
                  THEN (IF doc.present THEN "elements" ELSE "no elements")
                  ELSE "element")
    ELSE IF WaitTryExc.kind \in CaughtByWait
         THEN Raised(meta_raise(get_exception(WaitTryExc)))
         ELSE Raised(WaitTryExc)

wait_and_get_element ==
    /\ cpc = "after_wait"
    /\ call.op # "wait_and_check_if_element_exist_or_visible"
    /\ caught' = IF WaitTryExc.kind \in CaughtByWait THEN WaitTryExc ELSE caught
    /\ IF stage = "top"
       THEN /\ result' = WaitOutcome
            /\ cpc' = "done"
            /\ UNCHANGED ret
       ELSE /\ ret' = WaitOutcome
            /\ cpc' = "ret"
            /\ UNCHANGED result
    /\ UNCHANGED <<doc, call, stage, now, end_time, lastEval, everReady,
                   observed, wres, action, clickTrace, prior>>
    /\ UNCHANGED ctxVars
    /\ UNCHANGED lifeVars

\* wait_and_check_if_element_exist_or_visible after the wait
wait_and_check_if_element_exist_or_visible ==
    /\ cpc = "after_wait"
    /\ call.op = "wait_and_check_if_element_exist_or_visible"
    /\ result' = IF wres.status = "returned" THEN Returned("True")
                 ELSE IF wres.exc.kind \in CaughtByExist THEN Returned("False")
                 ELSE Raised(wres.exc)
    /\ caught' = IF wres.status = "raised" /\ wres.exc.kind \in CaughtByExist
                 THEN wres.exc ELSE caught
    /\ cpc' = "done"
    /\ UNCHANGED <<doc, call, stage, now, end_time, lastEval, everReady,
                   observed, wres, ret, action, clickTrace, prior>>
    /\ UNCHANGED ctxVars
    /\ UNCHANGED lifeVars

\* what element.click() does on the target as the document has it: a target
\* that is gone is stale, a hidden one cannot be interacted with, a visible
\* one is clicked unless something covers it
DirectClickOutcomes(d) ==
    IF ~d.present THEN {"StaleElementReferenceException"}
    ELSE IF ~d.visible THEN {"ElementNotInteractableException"}
    ELSE {"ok", "ElementClickInterceptedException"}

\* what self.action.click(element).perform() does: the pointer is moved to
\* the target and pressed, whatever covers it
PerformOutcomes(d) ==
    IF ~d.present THEN {"StaleElementReferenceException"}
    ELSE {"ok", "MoveTargetOutOfBoundsException"}

FallsBackWhenIntercepted(kind) == kind = "ElementClickInterceptedException"

\* except (ElementClickInterceptedException, ElementNotInteractableException)
FallsBack(kind) ==
    kind \in {"ElementClickInterceptedException",
              "ElementNotInteractableException"}

\* click_element(element, timeout) is called with a locator or a WebElement;
\* a locator is resolved by wait_and_get_element first
CallClick ==
    /\ Len(action) < MaxQueue
    /\ \E el \in {"tuple", "WebElement"}, t \in Timeouts :
          /\ Invoke([op |-> "click_element", element |-> el, timeout |-> t,
                     text |-> <<>>], "direct")
          /\ IF el = "tuple"
             THEN BeginWait(0, t)
             ELSE cpc' = "ret" /\ UNCHANGED end_time
    /\ Pending
    /\ UNCHANGED <<doc, action>>
    /\ UNCHANGED ctxVars
    /\ UNCHANGED lifeVars

\* the try block of click_element: the direct click
ClickDirect ==
    /\ cpc = "ret"
    /\ call.op = "click_element"
    /\ stage = "direct"
    /\ IF call.element = "tuple" /\ ret.status = "raised"
       THEN /\ result' = ret
            /\ clickTrace' = [clickTrace EXCEPT !.direct = "unresolved"]
            /\ cpc' = "done"
            /\ UNCHANGED <<stage, end_time>>
       ELSE \E out \in DirectClickOutcomes(doc) :
              /\ clickTrace' = [clickTrace EXCEPT !.direct = out]
              /\ IF out = "ok"
                 THEN /\ result' = Returned("None")
                      /\ cpc' = "done"
                      /\ UNCHANGED <<stage, end_time>>
                 ELSE IF FallsBack(out)
                 THEN /\ stage' = "fallback"
                      /\ UNCHANGED result
                      /\ IF call.element = "tuple"
                         THEN BeginWait(now, call.timeout)
                         ELSE cpc' = "ret" /\ UNCHANGED end_time
                 ELSE /\ result' = Raised(DriverExc(out, "click"))
                      /\ cpc' = "done"
                      /\ UNCHANGED <<stage, end_time>>
    /\ UNCHANGED <<doc, call, now, lastEval, everReady, observed, wres, ret,
                   caught, action, prior>>
    /\ UNCHANGED ctxVars
    /\ UNCHANGED lifeVars

\* what self.action holds after perform(): a driver library that sends the
\* queued gestures and keeps them, or one that empties the queue it sent
AfterPerform(queue) == {queue, <<>>}

\* the except block of click_element: the target is resolved again if a
\* locator was given, then a click on it is queued on self.action and the
\* queue is performed: perform() sends every gesture queued on self.action;
\* click_element does not call reset_actions()
ClickFallback ==
    /\ cpc = "ret"
    /\ call.op = "click_element"
    /\ stage = "fallback"
    /\ IF call.element = "tuple" /\ ret.status = "raised"
       THEN /\ result' = ret
            /\ clickTrace' = [clickTrace EXCEPT !.fallback = "unresolved"]
            /\ UNCHANGED <<action, trace>>
       ELSE LET queue == Append(action, [gesture |-> "click", on |-> "target"])
            IN  /\ trace' = [trace EXCEPT !.performed = queue]
                /\ action' \in AfterPerform(queue)
                /\ \E out \in PerformOutcomes(doc) :
                      IF out = "ok"
                      THEN /\ result' = Returned("None")
                           /\ clickTrace' = [clickTrace EXCEPT !.fallback = "ok"]
                      ELSE /\ result' = Raised(DriverExc(out, "perform"))
                           /\ clickTrace' = [clickTrace EXCEPT !.fallback = "failed"]
    /\ cpc' = "done"
    /\ UNCHANGED <<doc, call, stage, now, end_time, lastEval, everReady,
                   observed, wres, ret, caught, prior>>
    /\ UNCHANGED <<frame, windows, guarded, loop>>
    /\ UNCHANGED lifeVars

ClearNothing(v) == v

\* WebElement.clear(): the content of the field is emptied
Clear(v) == <<>>

\* WebElement.send_keys(text): the text is typed after the content
SendKeys(v, text) == v \o text

\* set_text_field(element, text, timeout) calls clear_text_field first
CallSetText ==
    /\ \E t \in Timeouts, text \in Texts :
          /\ Invoke([op |-> "set_text_field", element |-> "tuple",
                     timeout |-> t, text |-> text], "clear")
          /\ BeginWait(0, t)
    /\ Pending
    /\ UNCHANGED <<doc, action>>
    /\ UNCHANGED ctxVars
    /\ UNCHANGED lifeVars

\* clear_text_field: self.wait_and_get_element(element, timeout).clear()
clear_text_field ==
    /\ cpc = "ret"
    /\ call.op = "set_text_field"
    /\ stage = "clear"
    /\ IF ret.status = "raised"
       THEN /\ result' = ret
            /\ cpc' = "done"
            /\ UNCHANGED <<doc, stage>>
       ELSE IF ~doc.present
       THEN /\ result' = Raised(DriverExc("StaleElementReferenceException", "clear"))
            /\ cpc' = "done"
            /\ UNCHANGED <<doc, stage>>
       ELSE IF ~doc.visible
       THEN /\ result' = Raised(DriverExc("ElementNotInteractableException", "clear"))
            /\ cpc' = "done"
            /\ UNCHANGED <<doc, stage>>
       ELSE /\ doc' = [doc EXCEPT !.value = Clear(@)]
            /\ stage' = "type"
            /\ cpc' = "type"
            /\ UNCHANGED result
    /\ UNCHANGED <<call, now, end_time, lastEval, everReady, observed, wres,
                   ret, caught, action, clickTrace, prior>>
    /\ UNCHANGED ctxVars
    /\ UNCHANGED lifeVars

\* set_text_field after the clear: self.driver.find_element(*element)
\* .send_keys(text); the locator is resolved again, without a wait
set_text_field ==
    /\ cpc = "type"
    /\ call.op = "set_text_field"
    /\ IF ~doc.present
       THEN /\ result' = Raised(NoSuchElementExc)
            /\ UNCHANGED doc
       ELSE IF ~doc.visible
       THEN /\ result' = Raised(DriverExc("ElementNotInteractableException", "send_keys"))
            /\ UNCHANGED doc
       ELSE /\ doc' = [doc EXCEPT !.value = SendKeys(@, call.text)]
            /\ result' = Returned("None")
    /\ cpc' = "done"
    /\ UNCHANGED <<call, stage, now, end_time, lastEval, everReady, observed,
                   wres, ret, caught, action, clickTrace, prior>>
    /\ UNCHANGED ctxVars
    /\ UNCHANGED lifeVars

\* raised by the driver when a native dialog blocks a command
AlertExc ==
    [kind |-> "UnexpectedAlertPresentException",
     msg |-> <<"unexpected alert open">>, stacktrace |-> TRUE, tb |-> "get"]

\* what driver.get(url) followed by override_beforeunload_events() can end with
NavigationOutcomes == {"ok", "UnexpectedAlertPresentException", "WebDriverException"}

\* nuke_page_body: the html element is removed from the document, and the
\* target with it
nuke_page_body(d) == [present |-> FALSE, visible |-> FALSE, value |-> <<>>]

\* override_beforeunload_events: the two scripts install the overrides in the
\* document the driver is on
override_beforeunload_events(g) == TRUE

\* go_to_link(url, nuke) / refresh_page(nuke): the body is removed first if
\* nuke is given; then, inside try, the driver navigates (where: get or
\* refresh) and the overrides are installed in the document that was loaded.
\* A navigation puts the driver back on the default content of the new
\* document.  An unexpected alert is caught and goes through meta_raise; any
\* other error of the driver propagates, as does the error of a browser
\* whose session has ended.
Navigation(op, where) ==
    /\ \E nuke \in BOOLEAN,
          out \in (IF windows = 0 THEN {"InvalidSessionIdException"}
                   ELSE NavigationOutcomes) :
          /\ Invoke([op |-> op, element |-> "none", timeout |-> 0,
                     text |-> <<>>], "none")
          /\ trace' = [NoTrace EXCEPT !.from = frame,
                                      !.guardedBefore = guarded]
          /\ IF out = "ok"
             THEN /\ doc' = FreshDoc
                  /\ frame' = 0
                  /\ guarded' = override_beforeunload_events(FALSE)
                  /\ result' = Returned("None")
                  /\ caught' = NoExc
             ELSE /\ doc' = IF nuke THEN nuke_page_body(doc) ELSE doc
                  /\ UNCHANGED <<frame, guarded>>
                  /\ IF out = "UnexpectedAlertPresentException"
                     THEN /\ caught' = [AlertExc EXCEPT !.tb = where]
                          /\ result' = Raised(meta_raise(get_exception(
                                           [AlertExc EXCEPT !.tb = where])))
                     ELSE /\ caught' = NoExc
                          /\ result' = Raised(DriverExc(out, where))
    /\ cpc' = "done"
    /\ UNCHANGED <<end_time, action, windows, loop>>

\* go_to_link(url, nuke): self.driver.get(url)
go_to_link ==
    /\ Navigation("go_to_link", "get")
    /\ UNCHANGED lifeVars

\* refresh_page(nuke): self.driver.refresh()
refresh_page ==
    /\ Navigation("refresh_page", "refresh")
    /\ UNCHANGED lifeVars

\* deepest nesting of frames entered
MaxDepth == 2

\* what driver.switch_to.frame(element) does with the target as the document
\* has it: a target that is gone is stale, one that is no frame is refused
SwitchOutcomes(d) ==
    IF ~d.present THEN {"StaleElementReferenceException"}
    ELSE {"ok", "NoSuchFrameException"}

SwitchToFrameStay(depth) == depth

\* driver.switch_to.frame(element): the context moves into the frame
SwitchToFrame(depth) == depth + 1

ParentFrame(depth) == IF depth > 0 THEN depth - 1 ELSE 0

\* driver.switch_to.default_content(): the context is the top document
DefaultContent(depth) == 0

\* iframe_switch(element, timeout) is called with a locator or a WebElement;
\* a locator is resolved by wait_and_get_element first
CallIframeSwitch ==
    /\ frame < MaxDepth
    /\ \E el \in {"tuple", "WebElement"}, t \in Timeouts :
          /\ Invoke([op |-> "iframe_switch", element |-> el, timeout |-> t,
                     text |-> <<>>], "frame")
          /\ IF el = "tuple"
             THEN BeginWait(0, t)
             ELSE cpc' = "ret" /\ UNCHANGED end_time
    /\ Pending
    /\ trace' = [NoTrace EXCEPT !.from = frame]
    /\ UNCHANGED <<doc, action, frame, windows, guarded, loop>>
    /\ UNCHANGED lifeVars

\* iframe_switch once the element is at hand: self.driver.switch_to.frame(element)
iframe_switch ==
    /\ cpc = "ret"
    /\ call.op = "iframe_switch"
    /\ IF call.element = "tuple" /\ ret.status = "raised"
       THEN /\ result' = ret
            /\ UNCHANGED frame
       ELSE \E out \in SwitchOutcomes(doc) :
              IF out = "ok"
              THEN /\ frame' = SwitchToFrame(frame)
                   /\ result' = Returned("None")
              ELSE /\ result' = Raised(DriverExc(out, "switch_to.frame"))
                   /\ UNCHANGED frame
    /\ cpc' = "done"
    /\ UNCHANGED <<doc, call, stage, now, end_time, lastEval, everReady,
                   observed, wres, ret, caught, action, clickTrace, prior>>
    /\ UNCHANGED <<windows, guarded, loop, trace>>
    /\ UNCHANGED lifeVars

\* default_switch(): self.driver.switch_to.default_content()
default_switch ==
    /\ Invoke([op |-> "default_switch", element |-> "none", timeout |-> 0,
               text |-> <<>>], "none")
    /\ trace' = [NoTrace EXCEPT !.from = frame]
    /\ frame' = DefaultContent(frame)
    /\ result' = Returned("None")
    /\ caught' = NoExc
    /\ cpc' = "done"
    /\ UNCHANGED <<doc, end_time, action, windows, guarded, loop>>
    /\ UNCHANGED lifeVars

\* largest scroll height of the scrollable element
MaxHeight == 2
\* largest distance scrolled per step
MaxStep == 2

\* time.sleep(1) before the scroll height is read, in ticks
ScrollSettle == 4

\* wait_and_get_element(element) without a timeout: the default of the facade
\* is the longest wait made
DefaultTimeout == MaxTimeout

ScrollOps == {"scroll_and_get_until_element_exist_or_visible"}

\* scroll_and_get_until_element_exist_or_visible(scrollable_element, element,
\* step=st) is called, st > 0; a scrollable element given as a locator is
\* resolved by wait_and_get_element(scrollable_element, 5), which finds it or
\* ends with a TimeoutException that goes through meta_raise
CallScroll ==
    /\ \E el \in {"tuple", "WebElement"}, found \in BOOLEAN, st \in 1..MaxStep :
          /\ Invoke([op |-> "scroll_and_get_until_element_exist_or_visible",
                     element |-> el, timeout |-> DefaultTimeout,
                     text |-> <<>>], "scroll")
          /\ loop' = [NoLoop EXCEPT !.step = st]
          /\ IF el = "tuple" /\ ~found
             THEN /\ caught' = TimeoutExc
                  /\ result' = Raised(meta_raise(get_exception(TimeoutExc)))
                  /\ cpc' = "done"
             ELSE /\ Pending
                  /\ cpc' = "measure"
    /\ trace' = [NoTrace EXCEPT !.from = frame]
    /\ UNCHANGED <<doc, end_time, action, frame, windows, guarded>>
    /\ UNCHANGED lifeVars

\* time.sleep(1); scroll_height = self.get_scroll_height(scrollable_element);
\* height = 0.  The script returns the scrollHeight of the element, or the
\* element is stale by now.
get_scroll_height ==
    /\ cpc = "measure"
    /\ now' = now + ScrollSettle
    /\ \E H \in 0..MaxHeight, ok \in BOOLEAN :
          IF ok
          THEN /\ loop' = [loop EXCEPT !.scroll_height = H, !.height = 0]
               /\ cpc' = "loop"
               /\ UNCHANGED result
          ELSE /\ result' = Raised(DriverExc("StaleElementReferenceException",
                                             "get_scroll_height"))
               /\ cpc' = "done"
               /\ UNCHANGED loop
    /\ UNCHANGED <<doc, call, stage, end_time, lastEval, everReady, observed,
                   wres, ret, caught, action, clickTrace, prior>>
    /\ UNCHANGED <<frame, windows, guarded, trace>>
    /\ UNCHANGED lifeVars

ContinuesBelowHeight(height, scroll_height, step) == height < scroll_height

\* `while height < scroll_height + step`
Continues(height, scroll_height, step) == height < scroll_height + step

\* one pass of the loop of scroll_and_get_until_element_exist_or_visible:
\* self.js_scroll_to(scrollable_element, height=height); height += step.
\* When the loop is left the method returns self.wait_and_get_element(element).
scroll_and_get_until_element_exist_or_visible ==
    /\ cpc = "loop"
    /\ IF Continues(loop.height, loop.scroll_height, loop.step)
       THEN \E ok \in BOOLEAN :
              IF ok
              THEN /\ trace' = [trace EXCEPT !.issued = Append(@, loop.height)]
                   /\ loop' = [loop EXCEPT !.height = @ + loop.step]
                   /\ UNCHANGED <<cpc, stage, end_time, result>>
              ELSE /\ result' = Raised(DriverExc("StaleElementReferenceException",
                                                 "js_scroll_to"))
                   /\ cpc' = "done"
                   /\ UNCHANGED <<stage, end_time, loop, trace>>
       ELSE /\ stage' = "top"
            /\ BeginWait(now, call.timeout)
            /\ UNCHANGED <<result, loop, trace>>
    /\ UNCHANGED <<doc, call, now, lastEval, everReady, observed, wres, ret,
                   caught, action, clickTrace, prior>>
    /\ UNCHANGED <<frame, windows, guarded>>
    /\ UNCHANGED lifeVars

(***************************************************************************)
(* Part III: src/object/base_page.py, the operations on the browser: the   *)
(* navigation guard, the tabs, the drag strategies and the wait for an     *)
(* attribute.                                                              *)
(***************************************************************************)
\* most tabs open at a time
MaxTabs == 2

\* the site loads another document on its own between two calls (a link that
\* was clicked, a redirect): the overrides installed in the old one are gone
DocLoad ==
    /\ cpc = "idle"
    /\ windows > 0
    /\ guarded
    /\ doc' = FreshDoc
    /\ guarded' = FALSE
    /\ frame' = 0
    /\ UNCHANGED <<call, cpc, stage, now, end_time, lastEval, everReady,
                   observed, wres, ret, caught, result, action, clickTrace,
                   prior>>
    /\ UNCHANGED <<windows, loop, trace>>
    /\ UNCHANGED lifeVars

\* open_a_new_tab(url): window.open(url) adds a tab; the driver stays on its tab
open_a_new_tab ==
    /\ windows > 0
    /\ windows < MaxTabs
    /\ Invoke([op |-> "open_a_new_tab", element |-> "none", timeout |-> 0,
               text |-> <<>>], "none")
    /\ windows' = windows + 1
    /\ result' = Returned("None")
    /\ caught' = NoExc
    /\ cpc' = "done"
    /\ trace' = [NoTrace EXCEPT !.from = frame]
    /\ UNCHANGED <<doc, end_time, action, frame, guarded, loop>>
    /\ UNCHANGED lifeVars

\* driver.close(): the tab the driver is on is closed; the browser ends the
\* session when its last tab is closed
Close(n) == n - 1

\* close_current_tab(): self.driver.close().  (After closing one of several
\* tabs the caller switches to another before the next call.)
close_current_tab ==
    /\ Invoke([op |-> "close_current_tab", element |-> "none", timeout |-> 0,
               text |-> <<>>], "none")
    /\ IF windows = 0
       THEN /\ result' = Raised(DriverExc("InvalidSessionIdException", "close"))
            /\ UNCHANGED <<windows, frame>>
       ELSE /\ windows' = Close(windows)
            /\ frame' = 0
            /\ result' = Returned("None")
    /\ caught' = NoExc
    /\ cpc' = "done"
    /\ trace' = [NoTrace EXCEPT !.from = frame]
    /\ UNCHANGED <<doc, end_time, action, guarded, loop>>
    /\ UNCHANGED lifeVars

DragOps == {"actions_drag_and_drop_by_offset", "actions_drag_and_drop",
            "js_drag_and_drop"}

\* the strategy each drag method uses
Strategy(op) ==
    CASE op = "actions_drag_and_drop_by_offset" -> "offset"
      [] op = "actions_drag_and_drop"           -> "element"
      [] op = "js_drag_and_drop"                -> "script"

\* what action.drag_and_drop...(...).perform() or the injected script can end
\* with, with the dragged element as the document has it
DragOutcomes(op, d) ==
    IF ~d.present THEN {"StaleElementReferenceException"}
    ELSE IF op = "js_drag_and_drop" THEN {"ok", "JavascriptException"}
    ELSE {"ok", "MoveTargetOutOfBoundsException"}

\* one of the three drag methods is called, with locators or WebElements; a
\* source given as a locator is resolved by wait_and_get_element first
CallDrag ==
    /\ windows > 0
    /\ \E op \in DragOps, el \in {"tuple", "WebElement"}, t \in Timeouts :
          /\ Invoke([op |-> op, element |-> el, timeout |-> t, text |-> <<>>],
                    IF el = "tuple" THEN "source" ELSE "target")
          /\ IF el = "tuple"
             THEN BeginWait(0, t)
             ELSE cpc' = "ret" /\ UNCHANGED end_time
    /\ Pending
    /\ trace' = [NoTrace EXCEPT !.from = frame]
    /\ UNCHANGED <<doc, action, frame, windows, guarded, loop>>
    /\ UNCHANGED lifeVars

\* actions_drag_and_drop_by_offset / actions_drag_and_drop / js_drag_and_drop
\* once an element is at hand: the two methods that take a target resolve it
\* as well; then the method performs its own strategy on a local ActionChains
\* (or runs the script) and its outcome is the outcome of the call.  No method
\* catches the failure of its strategy and none calls another one.
DragAndDrop ==
    /\ cpc = "ret"
    /\ call.op \in DragOps
    /\ IF call.element = "tuple" /\ ret.status = "raised"
       THEN /\ result' = ret
            /\ cpc' = "done"
            /\ UNCHANGED <<stage, end_time, trace>>
       ELSE IF stage = "source" /\ call.op # "actions_drag_and_drop_by_offset"
       THEN /\ stage' = "target"
            /\ BeginWait(now, call.timeout)
            /\ UNCHANGED <<result, trace>>
       ELSE \E out \in DragOutcomes(call.op, doc) :
              /\ trace' = [trace EXCEPT !.tried = Append(@, Strategy(call.op))]
              /\ result' = IF out = "ok" THEN Returned("None")
                           ELSE Raised(DriverExc(out, "drag"))
              /\ cpc' = "done"
              /\ UNCHANGED <<stage, end_time>>
    /\ UNCHANGED <<doc, call, now, lastEval, everReady, observed, wres, ret,
                   caught, action, clickTrace, prior>>
    /\ UNCHANGED <<frame, windows, guarded, loop>>
    /\ UNCHANGED lifeVars

AttrOps == {"wait_for_element_attribute_content"}

\* wait_for_element_attribute_content(element, "value", expected_content,
\* timeout): get_attribute_content resolves the element by
\* wait_and_get_element(element, timeout) first
CallAttr ==
    /\ windows > 0
    /\ \E t \in Timeouts, expected \in Texts :
          /\ Invoke([op |-> "wait_for_element_attribute_content",
                     element |-> "tuple", timeout |-> t, text |-> expected],
                    "attr")
          /\ BeginWait(0, t)
    /\ Pending
    /\ trace' = [NoTrace EXCEPT !.from = frame]
    /\ UNCHANGED <<doc, action, frame, windows, guarded, loop>>
    /\ UNCHANGED lifeVars

\* the page fills in the attribute while a call waits for it
AttrLoad ==
    /\ call.op \in AttrOps
    /\ cpc \notin {"idle", "done"}
    /\ doc.present
    /\ \E v \in Texts \ {doc.value} : doc' = [doc EXCEPT !.value = v]
    /\ UNCHANGED <<call, cpc, stage, now, end_time, lastEval, everReady,
                   observed, wres, ret, caught, result, action, clickTrace,
                   prior>>
    /\ UNCHANGED ctxVars
    /\ UNCHANGED lifeVars

\* `if self.get_attribute_content(element, attribute_name, timeout) !=
\* expected_content:`: the attribute of the resolved element is read once and
\* compared; the method returns when it is the expected content
wait_for_element_attribute_content ==
    /\ cpc = "ret"
    /\ call.op \in AttrOps
    /\ IF ret.status = "raised"
       THEN /\ result' = ret
            /\ cpc' = "done"
            /\ UNCHANGED trace
       ELSE IF ~doc.present
       THEN /\ result' = Raised(DriverExc("StaleElementReferenceException",
                                          "get_attribute"))
            /\ cpc' = "done"
            /\ UNCHANGED trace
       ELSE /\ trace' = [trace EXCEPT !.reads = @ + 1,
                                      !.matched = (doc.value = call.text)]
            /\ IF doc.value # call.text
               THEN /\ cpc' = "nap"
                    /\ UNCHANGED result
               ELSE /\ result' = Returned("None")
                    /\ cpc' = "done"
    /\ UNCHANGED <<doc, call, stage, now, end_time, lastEval, everReady,
                   observed, wres, ret, caught, action, clickTrace, prior>>
    /\ UNCHANGED <<frame, windows, guarded, loop>>
    /\ UNCHANGED lifeVars

\* `time.sleep(timeout)`, after which the method returns None
AttrSleep ==
    /\ cpc = "nap"
    /\ now' = now + call.timeout
    /\ result' = Returned("None")
    /\ cpc' = "done"
    /\ UNCHANGED <<doc, call, stage, end_time, lastEval, everReady, observed,
                   wres, ret, caught, action, clickTrace, prior>>
    /\ UNCHANGED ctxVars
    /\ UNCHANGED lifeVars

\* the caller has taken the outcome of the call; the page object is left with
\* its driver's document and its ActionChains
Return ==
    /\ cpc = "done"
    /\ cpc' = "idle"
    /\ call' = NoCall
    /\ stage' = "none"
    /\ now' = 0
    /\ end_time' = 0
    /\ lastEval' = 0
    /\ everReady' = FALSE
    /\ observed' = FALSE
    /\ wres' = NoOutcome
    /\ ret' = NoOutcome
    /\ caught' = NoExc
    /\ result' = NoOutcome
    /\ clickTrace' = NoClick
    /\ prior' = <<>>
    /\ loop' = NoLoop
    /\ trace' = NoTrace
    /\ UNCHANGED <<doc, action, frame, windows, guarded>>
    /\ UNCHANGED lifeVars

PageNext ==
    \/ Return
    \/ DocChange
    \/ CallWaitAndGet
    \/ CallExist
    \/ UntilPoll
    \/ UntilSleep
    \/ wait_and_get_element
    \/ wait_and_check_if_element_exist_or_visible
    \/ CallClick
    \/ ClickDirect
    \/ ClickFallback
    \/ CallSetText
    \/ clear_text_field
    \/ set_text_field
    \/ CallIframeSwitch
    \/ iframe_switch
    \/ default_switch
    \/ CallScroll
    \/ get_scroll_height
    \/ scroll_and_get_until_element_exist_or_visible

(***************************************************************************)
(* Specifications                                                          *)
(***************************************************************************)
vars == <<lifeVars, pageVars>>

\* no test session is running
LifeIdle ==
    /\ LifeInit
    /\ NoGranularityFlag

\* no facade call is made
PageIdle ==
    /\ PageInit
    /\ doc = FreshDoc

\* the test lifecycle of src/conftest.py
Init == LifeInit /\ PageIdle

Next == LifeNext

Spec == Init /\ [][Next]_vars

\* the facade of src/object/base_page.py
InitPage == PageInit /\ LifeIdle

NextPage == PageNext

SpecPage == InitPage /\ [][NextPage]_vars

\* the operations on the browser of src/object/base_page.py
BrowserNext ==
    \/ Return
    \/ DocChange
    \/ DocLoad
    \/ UntilPoll
    \/ UntilSleep
    \/ wait_and_get_element
    \/ go_to_link
    \/ refresh_page
    \/ open_a_new_tab
    \/ close_current_tab
    \/ CallDrag
    \/ DragAndDrop
    \/ CallAttr
    \/ AttrLoad
    \/ wait_for_element_attribute_content
    \/ AttrSleep

SpecBrowser == InitPage /\ [][BrowserNext]_vars

\* the scroll loop alone, with the steps of a call in progress always taken
\* in the end: the method runs on one thread, the driver answers every
\* command or raises, and every sleep ends
NextScroll ==
    \/ Return
    \/ DocChange
    \/ CallScroll
    \/ get_scroll_height
    \/ scroll_and_get_until_element_exist_or_visible
    \/ UntilPoll
    \/ UntilSleep
    \/ wait_and_get_element

ScrollRuns ==
    \/ get_scroll_height
    \/ scroll_and_get_until_element_exist_or_visible
    \/ UntilPoll
    \/ UntilSleep
    \/ wait_and_get_element

SpecScroll == InitPage /\ [][NextScroll]_vars /\ WF_vars(ScrollRuns)

(***************************************************************************)
(* Claims about Part I                                                     *)
(***************************************************************************)
CallReported == item_rep["call"] # "none"

\* C1: Incremental-skip law. Within a group of incremental tests sharing a
\* parent, once a test Tk was the first to fail (in whatever phase), every
\* later test Tj of the group that gets to its call phase does not execute its
\* body and is skipped with a reason that names Tk.
C1_IncrementalSkipLaw ==
    (/\ CallReported
     /\ item.incremental
     /\ firstFailed[item.parent] \notin {0, idx})
    => (/\ ~bodyRan
        /\ item_rep["call"] = "skipped"
        /\ skipReason = firstFailed[item.parent])

Cached(h) == \E fx \in FixtureNames : ~cache[fx].exc /\ cache[fx].val = h

\* C2: Resource-release law. Every handle constructed by init_driver or
\* init_session is released exactly once, at the exit of its scope: never
\* while its scope is active, never twice, and always once the scope is left
\* (whether or not tests or the rest of the fixture's setup failed).
C2_ResourceReleaseLaw ==
    \A h \in DOMAIN handles :
        /\ handles[h].quits <= 1
        /\ Cached(h) => handles[h].quits = 0
        /\ (pc \in {"next", "done"} /\ ~Cached(h)) => handles[h].quits = 1

\* C3: with no granularity flag given, no Browser Handle is ever passed to
\* more than one test.
C3_DistinctHandlePerTest ==
    NoGranularityFlag =>
        \A h \in DOMAIN handles :
            handles[h].fixture = "init_driver" =>
                Cardinality(handles[h].recv) <= 1

\* two tests of the class have each received a Browser Handle of their own
C3_Witness ==
    /\ NoGranularityFlag
    /\ item.parent = "TestChatBoxPage"
    /\ \E h1, h2 \in DOMAIN handles :
          /\ h1 # h2
          /\ handles[h1].fixture = "init_driver"
          /\ handles[h2].fixture = "init_driver"
          /\ handles[h1].recv = {1}
          /\ handles[h2].recv = {2}
          /\ funcargs["init_driver"] = h2

Width(o) ==
    CASE o = "--session" -> 4
      [] o = "--package" -> 3
      [] o = "--module"  -> 2
      [] o = "--class"   -> 1

ScopeNamed(o) ==
    CASE o = "--session" -> "session"
      [] o = "--package" -> "package"
      [] o = "--module"  -> "module"
      [] o = "--class"   -> "class"

FlagsSet == {o \in OptionNames : flags[o]}

\* C4: determine_scope returns "function" when no flag is set, and otherwise
\* the scope named by the widest flag among those set (session over package
\* over module over class).
C4_ScopeMatchesFlags ==
    scope # "unset" =>
        IF FlagsSet = {}
        THEN scope = "function"
        ELSE \E o \in FlagsSet :
                /\ \A q \in FlagsSet : Width(q) <= Width(o)
                /\ scope = ScopeNamed(o)

\* several flags were given and the scope has been determined
C4_Witness ==
    /\ FlagsSet = {"--package", "--module", "--class"}
    /\ scope = "package"

ShotsOf(i) == {s \in attached : s[1] = i}

C13_MarkerWrittenOnce ==
    [][\A p \in Parents :
          previous_failed[p] # 0 => previous_failed'[p] = previous_failed[p]]_vars

\* a later incremental test of a group whose first test failed has been through
\* its call phase and the marker still names the first test
C13_Witness ==
    /\ idx = 2
    /\ item.incremental
    /\ CallReported
    /\ pc = "teardown"
    /\ previous_failed[item.parent] = 1

\* C20: the failure marker affects only incremental tests. A test not marked
\* incremental is never skipped because of the marker and its failure never
\* sets the marker; a test skipped because of the marker does not execute its
\* body, gets no screenshot and does not change the marker.
C20_MarkerOnlyIncremental ==
    [][/\ ~item'.incremental => skipReason' = 0
       /\ skipReason' # 0 => (~bodyRan' /\ ShotsOf(idx)' = {})
       /\ previous_failed' # previous_failed =>
             (item.incremental /\ skipReason = 0)]_vars

\* a test not marked incremental ran and failed in a group whose marker was set
\* by an earlier test, and the marker is as it was
C20_Witness ==
    /\ idx = 2
    /\ ~item.incremental
    /\ previous_failed[item.parent] = 1
    /\ bodyRan
    /\ item_rep["call"] = "failed"
    /\ pc = "teardown"


(***************************************************************************)
(* Claims about Part II                                                    *)
(***************************************************************************)
Done(ops) == cpc = "done" /\ call.op \in ops

WaitOps == {"wait_and_get_element", "wait_and_get_elements"}

\* C6 as stated: if the target is never both present and visible during a
\* wait_and_get_element(s) call with timeout T, the call raises no earlier
\* than T after its invocation and earlier than T plus one poll interval.
\* (Stated here for the calls in which the driver itself did not fail.)
C6_RaisesWithinOnePoll ==
    (Done(WaitOps) /\ ~everReady /\ result.exc # DriverFault) =>
        /\ result.status = "raised"
        /\ now >= call.timeout
        /\ now < call.timeout + Poll

\* C6 as amended: if the target is never both present and visible during the
\* call, the call raises; a TimeoutException is raised later than T after the
\* invocation and no later than T plus one poll interval plus the time the
\* last evaluation of the condition took; any other error is an error of the
\* driver that is no WebDriverException, propagated as it is.
C6_RaisesAfterDeadline ==
    (Done(WaitOps) /\ ~everReady) =>
        /\ result.status = "raised"
        /\ result.exc.kind = "TimeoutException" =>
              /\ now > call.timeout
              /\ now <= call.timeout + Poll + lastEval
        /\ result.exc.kind # "TimeoutException" => result.exc = DriverFault

\* a wait on a target that never showed timed out a full poll interval or more
\* after its deadline
C6_Witness ==
    /\ Done(WaitOps)
    /\ ~everReady
    /\ result.status = "raised"
    /\ result.exc.kind = "TimeoutException"
    /\ now >= call.timeout + Poll

ExistOps == {"wait_and_check_if_element_exist_or_visible"}

\* C7 as stated: the existence check never raises; it returns a boolean,
\* False when the target did not become present and visible and True only
\* when a poll observed it present and visible.
C7_ExistNeverRaises ==
    Done(ExistOps) =>
        /\ result.status = "returned"
        /\ result.value \in {"True", "False"}
        /\ result.value = "True" => observed
        /\ ~everReady => result.value = "False"

\* C7 as amended: the existence check returns a boolean (False when the target
\* did not become present and visible within the timeout, True only when a
\* poll observed it present and visible) unless the driver raised an error
\* that is none of TimeoutException, NoSuchElementException and
\* ElementNotVisibleException and that all_of does not swallow, which
\* reaches the caller as it is.
C7_ExistReturnsBoolean ==
    Done(ExistOps) =>
        \/ /\ result.status = "returned"
           /\ result.value \in {"True", "False"}
           /\ result.value = "True" => observed
           /\ ~everReady => result.value = "False"
           /\ result.value = "False" => now > call.timeout
        \/ /\ result.status = "raised"
           /\ result.exc = DriverFault
           /\ result.exc.kind \notin {"TimeoutException", "NoSuchElementException",
                                      "ElementNotVisibleException"}

\* the existence check timed out on a target that never showed and said False
C7_Witness ==
    /\ Done(ExistOps)
    /\ ~everReady
    /\ result = Returned("False")
    /\ caught = TimeoutExc

\* C8: meta-raise. When a wait or a guarded navigation fails, the error that
\* reaches the caller is the caught error unchanged: same kind, same message
\* and payload, original traceback.
C8_MetaRaiseUnchanged ==
    (cpc = "done" /\ result.status = "raised" /\ caught # NoExc) =>
        result.exc = caught

ClickOps == {"click_element"}

\* C9: click_element falls back to a simulated click on the same target exactly
\* when the direct click was intercepted or the target was not interactable;
\* it returns when the direct click or the simulated click succeeded, and it
\* raises in those two cases only when the fallback failed as well.
C9_ClickFallback ==
    Done(ClickOps) =>
        /\ clickTrace.fallback # "none" <=>
              clickTrace.direct \in {"ElementClickInterceptedException",
                                     "ElementNotInteractableException"}
        /\ clickTrace.fallback \in {"ok", "failed"} =>
              /\ trace.performed # <<>>
              /\ trace.performed[Len(trace.performed)] =
                    [gesture |-> "click", on |-> "target"]
        /\ (clickTrace.direct = "ok" \/ clickTrace.fallback = "ok") =>
              result = Returned("None")
        /\ result.status = "raised" <=>
              \/ clickTrace.direct \in {"unresolved", "StaleElementReferenceException"}
              \/ clickTrace.fallback \in {"unresolved", "failed"}

\* an intercepted click on a located target went through by the fallback
C9_Witness ==
    /\ Done(ClickOps)
    /\ call.element = "tuple"
    /\ clickTrace = [direct |-> "ElementClickInterceptedException",
                     fallback |-> "ok"]
    /\ result = Returned("None")

SetTextOps == {"set_text_field"}

\* C10: after set_text_field(L, text) returns, the value of the field is
\* exactly the new text, whatever the field held before.
C10_SetTextExact ==
    (Done(SetTextOps) /\ result.status = "returned") => doc.value = call.text

\* a field holding other text was set to a new text
C10_Witness ==
    /\ Done(SetTextOps)
    /\ result.status = "returned"
    /\ prior # <<>>
    /\ call.text # <<>>
    /\ prior # call.text
    /\ doc.value = call.text

\* C11: Frame idempotence. default_switch returns with the driver on the
\* default document context whatever the nesting depth it was called at, so
\* any number of iframe_switch / default_switch pairs started from the default
\* context ends on the default context.
C11_FrameIdempotence ==
    Done({"default_switch"}) =>
        /\ result = Returned("None")
        /\ frame = 0

\* default_switch was called two frames deep and left the driver on the
\* default context
C11_Witness ==
    /\ Done({"default_switch"})
    /\ trace.from = 2
    /\ frame = 0

\* the click, wait, text and scroll calls of the facade
StayOps == WaitOps \cup ExistOps \cup ClickOps \cup SetTextOps \cup ScrollOps

\* C16: the facade never restores the frame context on its own. iframe_switch
\* leaves the driver one frame deeper when it returns (and where it was when
\* it raises); no step of a click, wait, text or scroll call, from its
\* invocation to its return or raise, changes the frame context.
C16_NoAutoRestore ==
    [][/\ Done({"iframe_switch"})' =>
             frame' = IF result'.status = "returned"
                      THEN trace'.from + 1 ELSE trace'.from
       /\ (call.op \in StayOps \/ call'.op \in StayOps) => frame' = frame]_vars

\* as in ChatBotPage.open_the_chat_bot: a frame was entered, a click on a
\* locator inside it raised, and the driver is still in the frame
C16_Witness ==
    /\ Done(ClickOps)
    /\ call.element = "tuple"
    /\ result.status = "raised"
    /\ frame = 1

IsPrefix(a, b) ==
    /\ Len(a) <= Len(b)
    /\ \A i \in 1..Len(a) : a[i] = b[i]

\* the offsets 0, step, 2*step, ... below H + step: ceil((H + step) / step)
\* of them
Offsets(H, step) == [i \in 1..((H + 2 * step - 1) \div step) |-> (i - 1) * step]

\* C19: for every step > 0 and scroll height H the scroll call terminates. It
\* issues scrolls at the offsets 0, step, 2*step, ... in this order; when the
\* loop is left every offset below H + step has been scrolled to, the last at
\* or beyond H, and the call goes on to resolve the target; it ends by
\* returning the resolved target or by raising, never without a result.
C19_ScrollTerminates ==
    /\ [](call.op \in ScrollOps =>
            /\ IsPrefix(trace.issued, Offsets(loop.scroll_height, loop.step))
            /\ stage = "top" =>
                  /\ trace.issued = Offsets(loop.scroll_height, loop.step)
                  /\ trace.issued[Len(trace.issued)] >= loop.scroll_height
            /\ cpc = "done" =>
                  \/ result.status = "raised"
                  \/ /\ result = Returned("element")
                     /\ stage = "top")
    /\ (call.op \in ScrollOps) ~> Done(ScrollOps)

\* a scroll over a height that is no multiple of the step went past the height
\* and returned the target
C19_Witness ==
    /\ Done(ScrollOps)
    /\ result = Returned("element")
    /\ loop.scroll_height = 1
    /\ loop.step = 2
    /\ trace.issued = <<0, 2>>

NavOps == {"go_to_link", "refresh_page"}

\* C12: Navigation Guard. For every go_to_link and refresh_page call that
\* completes, the overrides that neutralize the beforeunload confirmation
\* were in place in the document when the navigation was issued, and are in
\* place in the document it loaded.
C12_GuardBeforeAndAfter ==
    (Done(NavOps) /\ result.status = "returned") =>
        /\ trace.guardedBefore
        /\ guarded

\* the browser session the Browser Handle stands for is open
Live == windows > 0

\* C14: Lifecycle containment. The Browser Handle a Page Object is built on
\* is live whenever the Page Object uses it, and no operation of the Page
\* Object closes or releases it.
C14_LifecycleContainment == Live

\* the strategies from the one a method starts with to the last resort
EscalationFrom(op) ==
    CASE op = "actions_drag_and_drop_by_offset" -> <<"offset", "element", "script">>
      [] op = "actions_drag_and_drop"           -> <<"element", "script">>
      [] op = "js_drag_and_drop"                -> <<"script">>

\* C17: drag-and-drop escalates from the native offset drag to the native
\* element-to-element drag to the script-injected drag, a later strategy being
\* tried only after the earlier one failed; the failure of a drag reaches the
\* caller only when every strategy down to the last resort has failed.
C17_DragEscalates ==
    (Done(DragOps) /\ trace.tried # <<>>) =>
        /\ IsPrefix(trace.tried, EscalationFrom(call.op))
        /\ result.status = "raised" => trace.tried = EscalationFrom(call.op)

\* C18: wait_for_element_attribute_content polls the attribute until it has
\* the expected content or the timeout has elapsed: a call that returns
\* without a poll having observed the expected content has read the attribute
\* more than once, and a call that returns before the timeout has observed it.
C18_PollsUntilExpected ==
    (Done(AttrOps) /\ result.status = "returned") =>
        /\ ~trace.matched => trace.reads > 1
        /\ now < call.timeout => trace.matched

====
